---- MODULE Spec2Model ----
(***************************************************************************)
(* The xDS control plane of Quilkin (src/src/xds/server.rs) and the        *)
(* request handler of its admin endpoint (src/src/admin.rs).               *)
(*                                                                         *)
(* Writers replace a cell of the shared Config and then run the callback   *)
(* that ControlPlane::from_arc registered on it; the callback calls        *)
(* push_update, which is a fetch_add on the version counter followed by a  *)
(* send on the watch channel.  Every stream is one task running            *)
(* stream_aggregated_resources: the handshake, then the select loop.       *)
(* discovery_response reads the snapshot and the version counter in two    *)
(* steps, so writers interleave with it.                                   *)
(***************************************************************************)
EXTENDS Integers, Sequences, FiniteSets, TLC

(* ------------------------------ bounds -------------------------------- *)

NumStreams == 2
NumWriters == 2
MaxMutations == 2
MaxResponses == 3

Streams == 1..NumStreams
Writers == 1..NumWriters

(* ------------------------- resource types ----------------------------- *)

ResourceTypes == {"Cluster", "Endpoint", "Listener"}

type_url(rt) ==
    CASE rt = "Cluster"  -> "type.googleapis.com/envoy.config.cluster.v3.Cluster"
      [] rt = "Endpoint" -> "type.googleapis.com/envoy.config.endpoint.v3.ClusterLoadAssignment"
      [] rt = "Listener" -> "type.googleapis.com/envoy.config.listener.v3.Listener"

InvalidTypeUrl == "invalid"

TypeUrls == {type_url(rt) : rt \in ResourceTypes} \cup {InvalidTypeUrl}

\* str::parse::<ResourceType>: the set of matching types, empty on Err(UnknownResourceType)
ParseResourceType(url) == {rt \in ResourceTypes : type_url(rt) = url}

(* ---------------------- version_info as a string ---------------------- *)

RECURSIVE to_string(_)
\* u64::to_string: the decimal digits, most significant first
to_string(n) ==
    IF n < 10 THEN <<n>> ELSE Append(to_string(n \div 10), n % 10)

RECURSIVE ParseDecimal(_)
\* how a client reads version_info back as an integer
ParseDecimal(digits) ==
    IF Len(digits) = 0 THEN 0
    ELSE 10 * ParseDecimal(SubSeq(digits, 1, Len(digits) - 1)) + digits[Len(digits)]

(* ------------------------------ nonces -------------------------------- *)

\* response_nonce values a client can put in a request.  Positive integers
\* stand for the strings that parse as a UUID.
NonceEmpty == 0
NonceMalformed == -1
NonceStride == 10
SpoofedUuid == NonceStride * (NumStreams + 1)

\* uuid::Uuid::parse_str(..).is_ok()
UuidParseOk(nonce) == nonce > 0

\* uuid::Uuid::new_v4(): the k-th value drawn on stream s, never drawn before
NewV4(s, k) == NonceStride * s + k

(* ------------------------------- state -------------------------------- *)

VARIABLES
    clusters,        \* Config.clusters: the published snapshot of the cluster map
    filters,         \* Config.filters: the published snapshot of the filter chain
    version,         \* Watchers.version of each resource type (AtomicU64)
    sender,          \* Watchers.sender of each resource type: the channel's version
    todo,            \* per writer: the push_update calls its callback has still to make
    step,            \* per writer: where it is inside push_update
    spc,             \* per stream: position in stream_aggregated_resources
    resource_type,   \* per stream: the resource type parsed from the initial request
    message,         \* per stream: resource_names of the initial request
    rx,              \* per stream: the version its watch receiver has seen
    pending_acks,    \* per stream: the nonce cache, oldest key first
    call,            \* per stream: the discovery_response call in progress
    response,        \* per stream: the response under construction or about to be yielded
    out,             \* per stream: the responses yielded so far, in emit order
    outcome,         \* per stream: how the RPC or the output stream ended
    absorbed,        \* per stream (history): the class of the last inbound item the
                     \* loop took without building a response, since the last yield
    mode,            \* admin: the Mode the admin server was started with
    healthy,         \* admin: what Health::check_healthy finds
    replies          \* admin (history): the requests handled so far and their status

vars == <<clusters, filters, version, sender, todo, step, spc, resource_type,
          message, rx, pending_acks, call, response, out, outcome, absorbed,
          mode, healthy, replies>>

configVars == <<clusters, filters>>
watcherVars == <<version, sender>>
writerVars == <<todo, step>>
streamVars == <<spc, resource_type, message, rx, pending_acks, call, response,
                out, outcome, absorbed>>
adminVars == <<mode, healthy, replies>>

\* resource_names lists a request can carry
Names == {<<>>, <<"default">>}

NoType == "none"

\* admin::Mode, and the admin server not started
Modes == {"Proxy", "Xds"}
NoMode == "none"

\* tokio::sync::watch::channel(()): the version a new channel starts at
InitialChannelVersion == 0

\* TimedSizedCache::with_size_and_lifespan(50, 1)
PendingAcksSize == 50

Init ==
    /\ clusters = [gen |-> 0, endpoints |-> 0]
    /\ filters = [gen |-> 0, encodable |-> TRUE]
    /\ version = [rt \in ResourceTypes |-> 0]
    /\ sender = [rt \in ResourceTypes |-> InitialChannelVersion]
    /\ todo = [w \in Writers |-> <<>>]
    /\ step = [w \in Writers |-> "fetch_add"]
    /\ spc = [s \in Streams |-> "AwaitingInitial"]
    /\ resource_type = [s \in Streams |-> NoType]
    /\ message = [s \in Streams |-> <<>>]
    /\ rx = [s \in Streams |-> InitialChannelVersion]
    /\ pending_acks = [s \in Streams |-> <<>>]
    /\ call = [s \in Streams |-> <<>>]
    /\ response = [s \in Streams |-> <<>>]
    /\ out = [s \in Streams |-> <<>>]
    /\ outcome = [s \in Streams |-> "none"]
    /\ absorbed = [s \in Streams |-> "none"]
    /\ mode = NoMode
    /\ healthy = TRUE
    /\ replies = <<>>

(* ------------------- Config cells and their watchers ------------------- *)

Mutations == clusters.gen + filters.gen

\* a clusters callback that leaves Endpoint out
ClustersWatchClusterOnly == <<"Cluster">>

\* a clusters callback that pushes Endpoint twice
ClustersWatchTwice == <<"Endpoint", "Endpoint", "Cluster">>

\* a clusters callback that pushes Cluster before Endpoint
ClustersWatchClusterFirst == <<"Cluster", "Endpoint">>

\* the callback from_arc registers on config.clusters
ClustersWatch == <<"Endpoint", "Cluster">>

\* a filters callback that pushes Cluster too
FiltersWatchAndCluster == <<"Listener", "Cluster">>

\* the callback from_arc registers on config.filters
FiltersWatch == <<"Listener">>

\* a store that runs the callback for a map it has not published
ClustersStoreUnpublished(w, n) ==
    /\ todo[w] = <<>>
    /\ version["Endpoint"] < MaxMutations
    /\ todo' = [todo EXCEPT ![w] = ClustersWatch]
    /\ step' = [step EXCEPT ![w] = "fetch_add"]
    /\ UNCHANGED <<configVars, watcherVars, streamVars, adminVars>>

\* config.clusters.store / modify: publish the new map, then run the callback
ClustersStore(w, n) ==
    /\ todo[w] = <<>>
    /\ Mutations < MaxMutations
    /\ clusters' = [gen |-> clusters.gen + 1, endpoints |-> n]
    /\ todo' = [todo EXCEPT ![w] = ClustersWatch]
    /\ step' = [step EXCEPT ![w] = "fetch_add"]
    /\ UNCHANGED <<filters, watcherVars, streamVars, adminVars>>

\* config.filters.store / modify: publish the new chain, then run the callback
FiltersStore(w, ok) ==
    /\ todo[w] = <<>>
    /\ Mutations < MaxMutations
    /\ filters' = [gen |-> filters.gen + 1, encodable |-> ok]
    /\ todo' = [todo EXCEPT ![w] = FiltersWatch]
    /\ step' = [step EXCEPT ![w] = "fetch_add"]
    /\ UNCHANGED <<clusters, watcherVars, streamVars, adminVars>>

\* a counter one bit wide
FetchAddWrap(v) == (v + 1) % 2

\* AtomicU64::fetch_add(1, Relaxed): the new value of the counter.  The
\* counter wraps at 2^64, which MaxMutations increments never reach.
FetchAdd(v) == v + 1

\* push_update, first half: watchers.version.fetch_add(1, Relaxed)
PushUpdateFetchAdd(w) ==
    /\ todo[w] # <<>>
    /\ step[w] = "fetch_add"
    /\ version' = [version EXCEPT ![Head(todo[w])] = FetchAdd(@)]
    /\ step' = [step EXCEPT ![w] = "send"]
    /\ UNCHANGED <<configVars, sender, todo, streamVars, adminVars>>

\* a push_update that bumps the counter and notifies nobody
PushUpdateNoSend(w) ==
    /\ todo[w] # <<>>
    /\ step[w] = "send"
    /\ todo' = [todo EXCEPT ![w] = Tail(@)]
    /\ step' = [step EXCEPT ![w] = "fetch_add"]
    /\ UNCHANGED <<configVars, watcherVars, streamVars, adminVars>>

\* push_update, second half: watchers.sender.send(()).  The Watchers entry
\* keeps a receiver, so the send never fails; it advances the channel version.
PushUpdateSend(w) ==
    /\ todo[w] # <<>>
    /\ step[w] = "send"
    /\ sender' = [sender EXCEPT ![Head(todo[w])] = @ + 1]
    /\ todo' = [todo EXCEPT ![w] = Tail(@)]
    /\ step' = [step EXCEPT ![w] = "fetch_add"]
    /\ UNCHANGED <<configVars, version, streamVars, adminVars>>

(* ----------------------- building a response --------------------------- *)

\* the cell a resource type is encoded from
Snapshot(rt) == IF rt = "Listener" THEN filters ELSE clusters

\* Config::discovery_request: encodes the current snapshot of the cell behind
\* rt, restricted to names.  <<>> stands for Err: a filter chain the
\* serializer rejects.
discovery_request(rt, names) ==
    IF rt = "Listener" /\ ~filters.encodable
    THEN <<>>
    ELSE << [type_url |-> type_url(rt),
             resources |-> [of |-> rt, gen |-> Snapshot(rt).gen, names |-> names],
             version_info |-> <<>>,
             nonce |-> NonceEmpty,
             trigger |-> "none"] >>

\* discovery_response, lines 125-128: the counter read for version_info
VersionLoad(rt) == version[rt]

\* a cache_set that records nothing
cache_set_dropped(cache, key) == cache

\* cached::TimedSizedCache::cache_set: the cache holds its keys oldest first;
\* a full cache drops its oldest key.  A stream emits at most MaxResponses
\* nonces, fewer than PendingAcksSize, so no key is ever dropped for size and
\* the order in which the cache would drop them does not matter.
cache_set(cache, key) ==
    LET others == SelectSeq(cache, LAMBDA k : k # key)
    IN  IF Len(others) >= PendingAcksSize
        THEN Append(Tail(others), key)
        ELSE Append(others, key)

\* cached::TimedSizedCache::cache_get(..).is_some()
cache_get(cache, key) == \E i \in 1..Len(cache) : cache[i] = key

(* ------------------------------ inbound -------------------------------- *)

Last(seq) == seq[Len(seq)]

\* what streaming.next() can yield: a request, an error status, or the end
Request(node, url, names, nonce, err) ==
    [kind |-> "message", node |-> node, type_url |-> url, resource_names |-> names,
     response_nonce |-> nonce, error_detail |-> err]

EndOfStream == [Request(FALSE, InvalidTypeUrl, <<>>, NonceEmpty, FALSE) EXCEPT !.kind = "end"]
ErrorItem == [Request(FALSE, InvalidTypeUrl, <<>>, NonceEmpty, FALSE) EXCEPT !.kind = "error"]

\* the nonces handed out so far on any stream
Issued == UNION {{out[t][i].nonce : i \in 1..Len(out[t])} : t \in Streams}

\* the response_nonce values a client may send: empty, malformed, a UUID the
\* server never issued, or one it issued on this or another stream
ClientNonces == {NonceEmpty, NonceMalformed, SpoofedUuid} \cup Issued

\* the first items a client can send, with a resource_names list from names
InitialItems(names) ==
    {EndOfStream, ErrorItem}
    \cup {Request(node, url, n, NonceEmpty, FALSE) :
            node \in BOOLEAN, url \in TypeUrls, n \in names}

\* a resource_names list no initial request carries
OtherNames == <<"other">>

LaterItems ==
    {EndOfStream, ErrorItem}
    \cup {Request(TRUE, url, OtherNames, nonce, err) :
            url \in TypeUrls, nonce \in ClientNonces, err \in BOOLEAN}

(* --------------------- stream_aggregated_resources --------------------- *)

Fail(s, status) ==
    /\ spc' = [spc EXCEPT ![s] = "Terminated"]
    /\ outcome' = [outcome EXCEPT ![s] = status]

\* line 171: self.watchers[resource_type].receiver.clone().  The stored
\* receiver never calls changed(), so it still holds the version it was
\* created with, and so does its clone.
ReceiverClone(rt) == InitialChannelVersion

\* a handshake that parses the type URL before it looks for the node
HandshakeErrorTypeFirst(item) ==
    IF item.kind = "end" THEN "InvalidArgument: No message found"
    ELSE IF item.kind = "error" THEN "Status"
    ELSE IF ParseResourceType(item.type_url) = {} THEN "UnknownResourceType"
    ELSE IF ~item.node THEN "InvalidArgument: Node identifier required"
    ELSE "none"

\* lines 155-166: what the handshake makes of the first inbound item
HandshakeError(item) ==
    IF item.kind = "end" THEN "InvalidArgument: No message found"
    ELSE IF item.kind = "error" THEN "Status"
    ELSE IF ~item.node THEN "InvalidArgument: Node identifier required"
    ELSE IF ParseResourceType(item.type_url) = {} THEN "UnknownResourceType"
    ELSE "none"

\* lines 155-173: the handshake up to the first discovery_response call
Handshake(s, item) ==
    /\ spc[s] = "AwaitingInitial"
    /\ IF HandshakeError(item) # "none"
       THEN /\ Fail(s, HandshakeError(item))
            /\ UNCHANGED <<resource_type, message, rx, call>>
       ELSE \E rt \in ParseResourceType(item.type_url) :
            /\ resource_type' = [resource_type EXCEPT ![s] = rt]
            /\ message' = [message EXCEPT ![s] = item.resource_names]
            /\ rx' = [rx EXCEPT ![s] = ReceiverClone(rt)]
            /\ call' = [call EXCEPT ![s] = <<[trigger |-> "initial", resource_type |-> rt,
                                              names |-> item.resource_names]>>]
            /\ spc' = [spc EXCEPT ![s] = "encode"]
            /\ UNCHANGED outcome
    /\ UNCHANGED <<configVars, watcherVars, writerVars, adminVars, pending_acks, response, out,
                   absorbed>>

\* what a failed encode does at each of the three call sites: `?` in the
\* handshake (line 174), `?` inside try_stream! (line 189), unwrap (line 230)
EncodeFailure(trigger) ==
    CASE trigger = "initial" -> "Internal"
      [] trigger = "changed" -> "Internal item"
      [] OTHER -> "panic"

\* discovery_response, lines 118-121: self.config.discovery_request(..)
DiscoveryResponseEncode(s) ==
    /\ spc[s] = "encode"
    /\ LET c == call[s][1]
           r == discovery_request(c.resource_type, c.names)
       IN  IF r = <<>>
           THEN /\ Fail(s, EncodeFailure(c.trigger))
                /\ call' = [call EXCEPT ![s] = <<>>]
                /\ UNCHANGED response
           ELSE /\ response' = [response EXCEPT ![s] = r]
                /\ spc' = [spc EXCEPT ![s] = "version"]
                /\ UNCHANGED <<outcome, call>>
    /\ UNCHANGED <<configVars, watcherVars, writerVars, adminVars, resource_type, message, rx,
                   pending_acks, out, absorbed>>

\* discovery_response, lines 122-141, and the caller's pending_acks.cache_set
DiscoveryResponseVersion(s) ==
    /\ spc[s] = "version"
    /\ LET c == call[s][1]
           nonce == NewV4(s, Len(out[s]) + 1)
           r == [response[s][1] EXCEPT
                    !.version_info = to_string(VersionLoad(c.resource_type)),
                    !.nonce = nonce,
                    !.trigger = c.trigger]
       IN  /\ response' = [response EXCEPT ![s] = <<r>>]
           /\ pending_acks' = [pending_acks EXCEPT ![s] = cache_set(@, nonce)]
    /\ call' = [call EXCEPT ![s] = <<>>]
    /\ spc' = [spc EXCEPT ![s] = "yield"]
    /\ UNCHANGED <<configVars, watcherVars, writerVars, adminVars, resource_type, message, rx,
                   out, outcome, absorbed>>

\* `yield response`: the consumer takes the response off the output stream
Yield(s) ==
    /\ spc[s] = "yield"
    /\ out' = [out EXCEPT ![s] = Append(@, response[s][1])]
    /\ response' = [response EXCEPT ![s] = <<>>]
    /\ spc' = [spc EXCEPT ![s] = "select"]
    /\ absorbed' = [absorbed EXCEPT ![s] = "none"]
    /\ UNCHANGED <<configVars, watcherVars, writerVars, adminVars, resource_type, message, rx,
                   pending_acks, call, outcome>>

\* a receiver that wakes for the channel of any resource type
HasChangedAny(s) == \E rt \in ResourceTypes : rx[s] # sender[rt]

\* tokio::sync::watch::Receiver::changed is ready
HasChanged(s) == rx[s] # sender[resource_type[s]]

\* a rx.changed() branch that builds for the type of the last response
ChangedTypeLast(s) ==
    CHOOSE rt \in ResourceTypes : type_url(rt) = Last(out[s]).type_url

\* line 186: the resource type the rx.changed() branch builds for
ChangedType(s) == resource_type[s]

\* lines 184-190: the rx.changed() branch of the select
Changed(s) ==
    /\ spc[s] = "select"
    /\ Len(out[s]) < MaxResponses
    /\ HasChanged(s)
    /\ rx' = [rx EXCEPT ![s] = sender[resource_type[s]]]
    /\ call' = [call EXCEPT ![s] = <<[trigger |-> "changed",
                                      resource_type |-> ChangedType(s),
                                      names |-> message[s]]>>]
    /\ spc' = [spc EXCEPT ![s] = "encode"]
    /\ UNCHANGED <<configVars, watcherVars, writerVars, adminVars, resource_type, message,
                   pending_acks, response, out, outcome, absorbed>>

\* a loop that answers an ACK like a plain request
ClassifyAckResends(s, item) ==
    IF item.kind = "end" THEN "end"
    ELSE IF item.kind = "error" THEN "error"
    ELSE IF ParseResourceType(item.type_url) = {} THEN "unknown type"
    ELSE IF item.error_detail THEN "nack"
    ELSE IF UuidParseOk(item.response_nonce) THEN
        IF cache_get(pending_acks[s], item.response_nonce) THEN "request" ELSE "unknown nonce"
    ELSE "request"

\* a loop that looks at the nonce before it looks at error_detail
ClassifyNonceFirst(s, item) ==
    IF item.kind = "end" THEN "end"
    ELSE IF item.kind = "error" THEN "error"
    ELSE IF ParseResourceType(item.type_url) = {} THEN "unknown type"
    ELSE IF UuidParseOk(item.response_nonce) THEN
        IF cache_get(pending_acks[s], item.response_nonce) THEN "ack" ELSE "unknown nonce"
    ELSE IF item.error_detail THEN "nack"
    ELSE "request"

\* a loop that propagates a type URL parse failure with `?`
ClassifyStrict(s, item) ==
    IF item.kind = "end" THEN "end"
    ELSE IF item.kind = "error" THEN "error"
    ELSE IF ParseResourceType(item.type_url) = {} THEN "end"
    ELSE IF item.error_detail THEN "nack"
    ELSE IF UuidParseOk(item.response_nonce) THEN
        IF cache_get(pending_acks[s], item.response_nonce) THEN "ack" ELSE "unknown nonce"
    ELSE "request"

\* a loop that answers an unknown nonce like a plain request
ClassifyUnknownResends(s, item) ==
    IF item.kind = "end" THEN "end"
    ELSE IF item.kind = "error" THEN "error"
    ELSE IF ParseResourceType(item.type_url) = {} THEN "unknown type"
    ELSE IF item.error_detail THEN "nack"
    ELSE IF UuidParseOk(item.response_nonce) THEN
        IF cache_get(pending_acks[s], item.response_nonce) THEN "ack" ELSE "request"
    ELSE "request"

\* a loop that passes over the end of the inbound stream
ClassifyEndContinues(s, item) ==
    IF item.kind = "end" THEN "error"
    ELSE IF item.kind = "error" THEN "error"
    ELSE IF ParseResourceType(item.type_url) = {} THEN "unknown type"
    ELSE IF item.error_detail THEN "nack"
    ELSE IF UuidParseOk(item.response_nonce) THEN
        IF cache_get(pending_acks[s], item.response_nonce) THEN "ack" ELSE "unknown nonce"
    ELSE "request"

\* lines 192-225: what the loop makes of an inbound item
Classify(s, item) ==
    IF item.kind = "end" THEN "end"
    ELSE IF item.kind = "error" THEN "error"
    ELSE IF ParseResourceType(item.type_url) = {} THEN "unknown type"
    ELSE IF item.error_detail THEN "nack"
    ELSE IF UuidParseOk(item.response_nonce) THEN
        IF cache_get(pending_acks[s], item.response_nonce) THEN "ack" ELSE "unknown nonce"
    ELSE "request"

\* the classes the loop answers with `continue`
Absorbed == {"error", "unknown type", "ack", "unknown nonce"}

\* a resend built for the stream's own type
ResendTypePinned(s, rt) == resource_type[s]

\* line 227: the resource type the resend is built for
ResendType(s, rt) == rt

\* a resend built for the names the new message carries
ResendNamesOfItem(s, item) == item.resource_names

\* line 227: the resource_names the resend is built for, those of the first
\* message
ResendNames(s, item) == message[s]

\* lines 191-231: the streaming.next() branch of the select
Inbound(s, item) ==
    /\ spc[s] = "select"
    /\ LET class == Classify(s, item)
       IN  IF class = "end" THEN
                /\ Fail(s, "end")
                /\ UNCHANGED <<call, absorbed>>
           ELSE IF class \in Absorbed THEN
                /\ absorbed' = [absorbed EXCEPT ![s] = class]
                /\ UNCHANGED <<spc, outcome, call>>
           ELSE \E rt \in ParseResourceType(item.type_url) :
                /\ Len(out[s]) < MaxResponses
                /\ call' = [call EXCEPT ![s] =
                                <<[trigger |-> class, resource_type |-> ResendType(s, rt),
                                   names |-> ResendNames(s, item)]>>]
                /\ spc' = [spc EXCEPT ![s] = "encode"]
                /\ UNCHANGED <<outcome, absorbed>>
    /\ UNCHANGED <<configVars, watcherVars, writerVars, adminVars, resource_type, message, rx,
                   pending_acks, response, out>>

\* the 1 s lifespan of the cache: its oldest nonce is no longer returned by
\* cache_get
Expire(s) ==
    /\ pending_acks[s] # <<>>
    /\ pending_acks' = [pending_acks EXCEPT ![s] = Tail(@)]
    /\ UNCHANGED <<configVars, watcherVars, writerVars, adminVars, spc, resource_type, message, rx,
                   call, response, out, outcome, absorbed>>

\* the stream has sent its initial response and its output has not ended
Active(s) == out[s] # <<>> /\ spc[s] # "Terminated"

(* ------------------------------- admin --------------------------------- *)

Methods == {"GET", "POST"}
Paths == {"/live", "/ready", "/readyz", "/other"}

StatusOk == 200
StatusNotFound == 404
StatusInternalServerError == 500

\* the requests handled before the model stops recording
MaxReplies == 3

\* Health::check_healthy
check_healthy == IF healthy THEN StatusOk ELSE StatusInternalServerError

\* ClusterMap::endpoints().count() of the current snapshot
EndpointCount == clusters.endpoints

\* a probe that is ready once the cluster map has been replaced
check_proxy_readiness_latched ==
    IF clusters.gen > 0 THEN StatusOk ELSE StatusInternalServerError

\* lines 98-106
check_proxy_readiness ==
    IF EndpointCount > 0 THEN StatusOk ELSE StatusInternalServerError

\* lines 37-61: the server is started in one mode
server(m) ==
    /\ mode = NoMode
    /\ mode' = m
    /\ UNCHANGED <<configVars, watcherVars, writerVars, streamVars, healthy, replies>>

\* lines 63-96, without the /metrics and /config routes
handle_request(method, path) ==
    IF method = "GET" /\ path \in {"/live", "/livez"} THEN check_healthy
    ELSE IF method = "GET" /\ path \in {"/ready", "/readyz"} THEN
        IF mode = "Proxy" THEN check_proxy_readiness ELSE check_healthy
    ELSE StatusNotFound

\* lines 52-56: the admin server answers one request
HandleRequest(method, path) ==
    /\ mode # NoMode
    /\ Len(replies) < MaxReplies
    /\ replies' = Append(replies, [method |-> method, path |-> path,
                                   status |-> handle_request(method, path)])
    /\ UNCHANGED <<configVars, watcherVars, writerVars, streamVars, mode, healthy>>

\* the health module stops reporting the process healthy
BecomeUnhealthy ==
    /\ healthy
    /\ healthy' = FALSE
    /\ UNCHANGED <<configVars, watcherVars, writerVars, streamVars, mode, replies>>

(* ---------------------------- specification ---------------------------- *)

\* the writers WW replace the cluster map, publishing maps with the
\* endpoint counts eps, and run the callback registered on it
WriteClusters(WW, eps) ==
    \/ \E w \in WW, n \in eps : ClustersStore(w, n)
    \/ \E w \in WW : PushUpdateFetchAdd(w)
    \/ \E w \in WW : PushUpdateSend(w)

\* the writers WW replace either cell; oks tells whether the filter chains
\* they publish encode
Write(WW, eps, oks) ==
    \/ WriteClusters(WW, eps)
    \/ \E w \in WW, ok \in oks : FiltersStore(w, ok)

\* the streams SS run stream_aggregated_resources against a client whose
\* first item is drawn from first and whose later items on stream s are drawn
\* from later[s]
Serve(SS, first, later) ==
    \/ \E s \in SS, item \in first : Handshake(s, item)
    \/ \E s \in SS : DiscoveryResponseEncode(s)
    \/ \E s \in SS : DiscoveryResponseVersion(s)
    \/ \E s \in SS : Yield(s)
    \/ \E s \in SS : Changed(s)
    \/ \E s \in SS : \E item \in later[s] : Inbound(s, item)

AnyLater(s) == LaterItems

\* a client that keeps to the stream's own type after the handshake: it
\* acknowledges, echoes nonces the stream does not know, rejects, asks again,
\* sends unknown type URLs and broken items, and may end the stream
OwnTypeLater(s) ==
    {EndOfStream, ErrorItem}
    \cup {Request(TRUE, url, OtherNames, nonce, err) :
            url \in {type_url(rt) : rt \in ResourceTypes \cap {resource_type[s]}}
                    \cup {InvalidTypeUrl},
            nonce \in ClientNonces,
            err \in BOOLEAN}

\* a client whose later requests all make the stream build a response, for
\* any of the three types: rejections with any nonce, and requests without a
\* UUID nonce
ResendLater(s) ==
    {EndOfStream}
    \cup {Request(TRUE, type_url(rt), OtherNames, nonce, TRUE) :
            rt \in ResourceTypes, nonce \in ClientNonces}
    \cup {Request(TRUE, type_url(rt), OtherNames, nonce, FALSE) :
            rt \in ResourceTypes, nonce \in {NonceEmpty, NonceMalformed}}

\* one stream and one writer of the cluster map, every interleaving, every
\* class of inbound item; no nonce outlives its lifespan
Next ==
    \/ WriteClusters({1}, {1})
    \/ Serve({1}, InitialItems({<<>>}), [s \in {1} |-> OwnTypeLater(s)])

Spec == Init /\ [][Next]_vars

\* the same with a client that asks for and rejects any type on one stream
TypesNext ==
    \/ Write({1}, {1}, {TRUE})
    \/ Serve({1}, InitialItems(Names), [s \in {1} |-> ResendLater(s)])

TypesSpec == Init /\ [][TypesNext]_vars

\* the configuration changes only before the stream opens; the client is
\* unrestricted
SettledNext ==
    \/ spc[1] = "AwaitingInitial" /\ Write({1}, {1}, {TRUE})
    \/ Serve({1}, InitialItems(Names), [s \in {1} |-> AnyLater(s)])

SettledSpec == Init /\ [][SettledNext]_vars

\* every stream is opened for Endpoint by a client that afterwards only
\* acknowledges or ends the stream; once all streams are Active the cluster
\* map is replaced once
EndpointInitial ==
    {Request(TRUE, type_url("Endpoint"), n, NonceEmpty, FALSE) : n \in Names}

AckLater(s) ==
    {EndOfStream}
    \cup {Request(TRUE, type_url("Endpoint"), OtherNames, out[s][i].nonce, FALSE) :
            i \in 1..Len(out[s])}

FanoutStore ==
    /\ \A s \in Streams : Active(s)
    /\ Mutations = 0
    /\ ClustersStore(1, 1)

FanoutNext ==
    \/ FanoutStore
    \/ PushUpdateFetchAdd(1)
    \/ PushUpdateSend(1)
    \/ Serve(Streams, EndpointInitial, [s \in Streams |-> AckLater(s)])

FanoutSpec == Init /\ [][FanoutNext]_vars

\* what the runtime guarantees: a running callback finishes, a response being
\* built is built and taken by the consumer, and the select, which polls its
\* branches in random order, does not pass over a ready rx.changed() forever
Fairness ==
    /\ WF_vars(PushUpdateFetchAdd(1))
    /\ WF_vars(PushUpdateSend(1))
    /\ WF_vars(DiscoveryResponseEncode(1))
    /\ WF_vars(DiscoveryResponseVersion(1))
    /\ WF_vars(Yield(1))
    /\ SF_vars(Changed(1))

\* a client that opens the stream with a well-formed request and from then
\* on may at any time acknowledge or reject the last response, ask again, or
\* end the stream
WellFormedInitial ==
    {Request(TRUE, type_url(rt), <<>>, NonceEmpty, FALSE) : rt \in ResourceTypes}

BusyLater(s) ==
    {EndOfStream}
    \cup {Request(TRUE, url, OtherNames, nonce, err) :
            url \in {type_url(rt) : rt \in ResourceTypes \cap {resource_type[s]}},
            nonce \in {NonceEmpty} \cup {Last(out[s]).nonce : i \in 1..Len(out[s])},
            err \in BOOLEAN}

LiveNext ==
    \/ Write({1}, {1}, {TRUE})
    \/ Serve({1}, WellFormedInitial, [s \in {1} |-> BusyLater(s)])

LiveSpec == Init /\ [][LiveNext]_vars /\ Fairness

\* two writers race each other and the stream; the client answers its own
\* type with NACKs or ends the stream
NackLater(s) ==
    {EndOfStream}
    \cup {Request(TRUE, url, OtherNames, NonceEmpty, TRUE) :
            url \in {type_url(rt) : rt \in ResourceTypes \cap {resource_type[s]}}}

RaceNext ==
    \/ Write(Writers, {1}, {TRUE})
    \/ Serve({1}, WellFormedInitial, [s \in {1} |-> NackLater(s)])

RaceSpec == Init /\ [][RaceNext]_vars

\* the same under what the runtime guarantees: every running callback
\* finishes, and the stream's steps are taken as in Fairness
RaceFairness ==
    /\ \A w \in Writers : WF_vars(PushUpdateFetchAdd(w)) /\ WF_vars(PushUpdateSend(w))
    /\ WF_vars(DiscoveryResponseEncode(1))
    /\ WF_vars(DiscoveryResponseVersion(1))
    /\ WF_vars(Yield(1))
    /\ SF_vars(Changed(1))

RaceLiveSpec == Init /\ [][RaceNext]_vars /\ RaceFairness

\* the writer also publishes filter chains the encoder rejects; the client
\* asks for and rejects any type
EncodeLater(s) ==
    {EndOfStream}
    \cup {Request(TRUE, type_url(rt), OtherNames, NonceEmpty, err) :
            rt \in ResourceTypes, err \in BOOLEAN}

EncodeNext ==
    \/ Write({1}, {1}, BOOLEAN)
    \/ Serve({1}, WellFormedInitial, [s \in {1} |-> EncodeLater(s)])

EncodeSpec == Init /\ [][EncodeNext]_vars

\* the admin server next to one writer that fills and empties the cluster map
EndpointCounts == {0, 1}

AdminNext ==
    \/ WriteClusters({1}, EndpointCounts)
    \/ \E m \in Modes : server(m)
    \/ \E method \in Methods, path \in Paths : HandleRequest(method, path)
    \/ BecomeUnhealthy

AdminSpec == Init /\ [][AdminNext]_vars

\* all streams, opened for Endpoint, whose nonces expire, and one change of
\* the cluster map once they are Active; the clients echo without
\* error_detail any nonce issued on any stream, or end the stream
EchoLater(s) ==
    {EndOfStream}
    \cup {Request(TRUE, type_url("Endpoint"), OtherNames, nonce, FALSE) : nonce \in Issued}

NonceNext ==
    \/ FanoutStore
    \/ PushUpdateFetchAdd(1)
    \/ PushUpdateSend(1)
    \/ Serve(Streams, EndpointInitial, [s \in Streams |-> EchoLater(s)])
    \/ \E s \in Streams : Expire(s)

NonceSpec == Init /\ [][NonceNext]_vars

(* ------------------------- reading the output -------------------------- *)

\* the responses of type rt a client has seen on stream s, in emit order
Seen(s, rt) == SelectSeq(out[s], LAMBDA r : r.type_url = type_url(rt))

\* their version_info values, read as integers
SeenVersions(s, rt) ==
    [i \in 1..Len(Seen(s, rt)) |-> ParseDecimal(Seen(s, rt)[i].version_info)]

(* -------------------------------- C1 ----------------------------------- *)

\* C1 as stated: on every stream, the version_info values of the responses
\* of one resource type, read as integers in emit order, are strictly
\* increasing.
C1_StrictlyIncreasing ==
    \A s \in Streams, rt \in ResourceTypes :
        \A i, j \in 1..Len(Seen(s, rt)) :
            i < j => SeenVersions(s, rt)[i] < SeenVersions(s, rt)[j]

\* C1 amended: on every stream, the version_info values of the responses of
\* one resource type, read as integers in emit order, never decrease (a
\* resend repeats the version of the response before it).
C1_NonDecreasing ==
    \A s \in Streams, rt \in ResourceTypes :
        \A i, j \in 1..Len(Seen(s, rt)) :
            i < j => SeenVersions(s, rt)[i] <= SeenVersions(s, rt)[j]

\* a stream that sent the same version of one type twice and then a higher one
C1_Witness ==
    \E s \in Streams, rt \in ResourceTypes :
        /\ Len(Seen(s, rt)) >= 3
        /\ SeenVersions(s, rt)[1] = SeenVersions(s, rt)[2]
        /\ SeenVersions(s, rt)[2] < SeenVersions(s, rt)[3]

(* -------------------------------- C2 ----------------------------------- *)

\* C2: the version counter of a resource type never decreases, and once a
\* stream has emitted a response of type rt with version N, no later response
\* of type rt on that stream (yielded or built and waiting to be yielded)
\* carries a version below N.
C2_VersionMonotonic ==
    /\ [][\A rt \in ResourceTypes : version'[rt] >= version[rt]]_vars
    /\ [](\A s \in Streams, rt \in ResourceTypes :
            LET later == IF response[s] # <<>>
                            /\ response[s][1].type_url = type_url(rt)
                            /\ response[s][1].version_info # <<>>
                         THEN Append(SeenVersions(s, rt),
                                     ParseDecimal(response[s][1].version_info))
                         ELSE SeenVersions(s, rt)
            IN  \A i \in 1..Len(later) : \A j \in 1..Len(later) :
                    i < j => later[j] >= later[i])

\* two writers are inside their callbacks, the counter of a type has been
\* bumped twice, and a stream that has already emitted version 1 or more of
\* that type is between its snapshot read and its counter read
C2_Witness ==
    \E s \in Streams, rt \in ResourceTypes :
        /\ version[rt] >= 2
        /\ Len(Seen(s, rt)) >= 1
        /\ SeenVersions(s, rt)[1] >= 1
        /\ spc[s] = "version"
        /\ call[s][1].resource_type = rt
        /\ \A w \in Writers : todo[w] # <<>>

(* -------------------------------- C3 ----------------------------------- *)

\* the version of the last response of the stream's own type it has emitted
LastVersion(s) == Last(SeenVersions(s, resource_type[s]))

\* writer w has just published a new snapshot of the cell behind rt and has
\* not started the callback
Published(w, rt) ==
    /\ step[w] = "fetch_add"
    /\ todo[w] = (IF rt = "Listener" THEN FiltersWatch ELSE ClustersWatch)

\* C3: after a mutation of the cell behind its resource type, an Active
\* stream eventually emits a response of its type with a version above the
\* last one it emitted before the mutation, unless the client ends the
\* stream or the stream has emitted MaxResponses responses, whatever the
\* client keeps sending.
C3_MutationEventuallyPushed ==
    \A rt \in ResourceTypes : \A v \in 0..MaxMutations :
        (/\ Published(1, rt)
         /\ Active(1)
         /\ resource_type[1] = rt
         /\ LastVersion(1) = v)
        ~> (\/ spc[1] = "Terminated"
            \/ Len(out[1]) >= MaxResponses
            \/ (Active(1) /\ LastVersion(1) > v))

\* an Active stream with room for more responses has emitted a version above
\* its first one, in response to a notification
C3_Witness ==
    /\ Active(1)
    /\ Len(out[1]) < MaxResponses
    /\ Last(out[1]).trigger = "changed"
    /\ LastVersion(1) > SeenVersions(1, resource_type[1])[1]


(* -------------------------------- C5 ----------------------------------- *)

\* the nonces stream s holds in its PendingAcks
Pending(s) == {pending_acks[s][i] : i \in 1..Len(pending_acks[s])}

\* an ACK as the claim defines it: a request with a known type URL, no
\* error_detail and a UUID nonce the stream holds in PendingAcks
IsAck(s, item) ==
    /\ item.kind = "message"
    /\ item.type_url \in {type_url(rt) : rt \in ResourceTypes}
    /\ ~item.error_detail
    /\ UuidParseOk(item.response_nonce)
    /\ item.response_nonce \in Pending(s)

\* C5: the loop iteration that takes an ACK builds nothing and ends nothing:
\* the stream is back in the select with no call started, no response
\* pending, its output as it was and no outcome set.
C5_AckIsSilent ==
    [][\A s \in Streams :
          spc[s] = "select" =>
          \A item \in {i \in LaterItems : IsAck(s, i)} :
          Inbound(s, item) =>
              /\ spc'[s] = "select"
              /\ call'[s] = <<>>
              /\ response'[s] = <<>>
              /\ out'[s] = out[s]
              /\ outcome'[s] = "none"]_vars

\* an Active stream has just taken an ACK and has sent nothing but its
\* initial response
C5_Witness ==
    /\ absorbed[1] = "ack"
    /\ Active(1)
    /\ spc[1] = "select"
    /\ Len(out[1]) = 1

(* -------------------------------- C9 ----------------------------------- *)

\* the status the claim gives each bad first item
C9_Expected(item) ==
    IF item.kind = "end" THEN "InvalidArgument: No message found"
    ELSE IF item.kind = "message" /\ ~item.node
        THEN "InvalidArgument: Node identifier required"
    ELSE IF item.kind = "message" /\ item.type_url = InvalidTypeUrl
        THEN "UnknownResourceType"
    ELSE "none"

C9_HandshakeFailures ==
    {"InvalidArgument: No message found", "InvalidArgument: Node identifier required",
     "UnknownResourceType"}

\* C9: a first item that is the end of the stream, a request without node, or
\* a request with an unknown type URL fails the RPC with the status the claim
\* names (a missing node wins over a bad type URL); after such a failure the
\* stream has emitted nothing, holds no nonce, has no response pending and
\* stays Terminated.
C9_HandshakeFailure ==
    /\ [][\A s \in Streams : \A item \in InitialItems(Names) :
            (Handshake(s, item) /\ C9_Expected(item) # "none") =>
                /\ outcome'[s] = C9_Expected(item)
                /\ spc'[s] = "Terminated"]_vars
    /\ [](\A s \in Streams :
            outcome[s] \in C9_HandshakeFailures =>
                /\ spc[s] = "Terminated"
                /\ out[s] = <<>>
                /\ response[s] = <<>>
                /\ call[s] = <<>>
                /\ pending_acks[s] = <<>>)

\* an RPC that failed for a missing node
C9_Witness ==
    /\ outcome[1] = "InvalidArgument: Node identifier required"
    /\ spc[1] = "Terminated"

(* -------------------------------- C10 ---------------------------------- *)

\* C10: after the handshake no request, whatever it carries, ends the
\* stream, and a request whose type URL does not parse changes nothing of the
\* stream: no call, no response, the same PendingAcks and subscription.
C10_ClientErrorsNotTerminal ==
    [][\A s \in Streams :
          spc[s] = "select" =>
          \A item \in {i \in LaterItems : i.kind = "message"} :
          Inbound(s, item) =>
              /\ spc'[s] # "Terminated"
              /\ outcome'[s] = "none"
              /\ (item.type_url = InvalidTypeUrl =>
                    /\ spc'[s] = "select"
                    /\ call'[s] = <<>>
                    /\ response'[s] = <<>>
                    /\ out'[s] = out[s]
                    /\ pending_acks'[s] = pending_acks[s]
                    /\ rx'[s] = rx[s]
                    /\ resource_type'[s] = resource_type[s]
                    /\ message'[s] = message[s])]_vars

\* a stream that took a request with an unknown type URL and is now yielding
\* the response to a later request or notification
C10_Witness ==
    /\ absorbed[1] = "unknown type"
    /\ spc[1] = "yield"
    /\ response[1][1].trigger \in {"request", "changed"}


(* -------------------------------- C4 ----------------------------------- *)

\* C4: with all streams Active on Endpoint and the cluster map replaced
\* once, each stream that stays open emits at most one response after its
\* initial one, that response is an Endpoint response with a version above
\* the initial one's, and once the callback has returned and the stream has
\* consumed its notification it has emitted exactly one.
C4_FanOutExactlyOne ==
    \A s \in Streams :
        (clusters.gen = 1 /\ spc[s] # "Terminated") =>
            /\ Len(out[s]) <= 2
            /\ (Len(out[s]) = 2 =>
                    /\ out[s][2].type_url = type_url("Endpoint")
                    /\ ParseDecimal(out[s][2].version_info)
                         > ParseDecimal(out[s][1].version_info))
            /\ ((todo[1] = <<>> /\ spc[s] = "select" /\ ~HasChanged(s)) =>
                    Len(out[s]) = 2)

\* every stream has emitted its one new response after the mutation
C4_Witness ==
    /\ clusters.gen = 1
    /\ todo[1] = <<>>
    /\ \A s \in Streams : spc[s] = "select" /\ Len(out[s]) = 2

(* -------------------------------- C6 ----------------------------------- *)

\* a NACK as the claim defines it: a request with a known type URL and an
\* error_detail, whatever its nonce
IsNack(item) ==
    /\ item.kind = "message"
    /\ item.type_url \in {type_url(rt) : rt \in ResourceTypes}
    /\ item.error_detail

\* the loop iteration that takes a NACK starts exactly one response and does
\* not end the stream
C6_NackStartsOneResponse ==
    \A s \in Streams :
        spc[s] = "select" =>
        \A item \in {i \in LaterItems : IsNack(i)} :
        Inbound(s, item) =>
            /\ spc'[s] = "encode"
            /\ Len(call'[s]) = 1
            /\ call'[s][1].trigger = "nack"
            /\ out'[s] = out[s]
            /\ outcome'[s] = "none"

\* a response built for a NACK carries a nonce no earlier response carried
C6_FreshNonce ==
    \A s \in Streams : \A j \in 1..Len(out[s]) :
        out[s][j].trigger = "nack" =>
            \A i \in 1..(j - 1) : out[s][i].nonce # out[s][j].nonce

C7_AllPinnedType ==
    \A s \in Streams : \A i \in 1..Len(out[s]) :
        out[s][i].type_url = type_url(resource_type[s])

\* C7 amended: the initial response and every response triggered by a watcher
\* notification have the resource type of the stream's initial request; only
\* a response triggered by a later inbound message can have another type.
C7_WatcherKeepsPinnedType ==
    \A s \in Streams : \A i \in 1..Len(out[s]) :
        out[s][i].trigger \in {"initial", "changed"} =>
            out[s][i].type_url = type_url(resource_type[s])

\* a stream that answered a message with a response of another type and
\* then a notification with a response of its own type
C7_Witness ==
    \E i, j \in 1..Len(out[1]) :
        /\ i < j
        /\ out[1][i].trigger \in {"nack", "request"}
        /\ out[1][i].type_url # type_url(resource_type[1])
        /\ out[1][j].trigger = "changed"

(* -------------------------------- C8 ----------------------------------- *)

\* the follow-up request of the claim
ListenerRequest == Request(TRUE, type_url("Listener"), OtherNames, NonceEmpty, FALSE)

\* stream s, opened for Endpoint, is answering a follow-up request for Listener
AnsweringListener(s) ==
    /\ resource_type[s] = "Endpoint"
    /\ Len(call[s]) = 1
    /\ call[s][1].trigger = "request"
    /\ call[s][1].resource_type = "Listener"

\* C8: on a stream opened for Endpoint, a later request for Listener with no
\* error_detail and an empty nonce starts exactly one response; that
\* response is encoded from the filter chain current when it is encoded, is
\* stamped with the value the Listener counter has when it is stamped, has
\* the Listener type URL and a nonce no earlier response carried.
C8_ListenerFollowUp ==
    [][\A s \in Streams :
          /\ (spc[s] = "select" /\ resource_type[s] = "Endpoint"
                /\ Inbound(s, ListenerRequest)) =>
                    (spc'[s] = "encode" /\ AnsweringListener(s)' /\ out'[s] = out[s])
          /\ (AnsweringListener(s) /\ spc[s] = "encode") =>
                    /\ spc'[s] \in {"encode", "version"}
                    /\ (spc'[s] = "version" =>
                          /\ response'[s][1].type_url = type_url("Listener")
                          /\ response'[s][1].resources.of = "Listener"
                          /\ response'[s][1].resources.gen = filters.gen)
          /\ (AnsweringListener(s) /\ spc[s] = "version") =>
                    /\ spc'[s] \in {"version", "yield"}
                    /\ (spc'[s] = "yield" =>
                          /\ ParseDecimal(response'[s][1].version_info) = version["Listener"]
                          /\ response'[s][1].type_url = type_url("Listener")
                          /\ \A i \in 1..Len(out[s]) :
                                out[s][i].nonce # response'[s][1].nonce)]_vars

\* a stream opened for Endpoint has answered a Listener request with the
\* Listener version while the Endpoint version is another
C8_Witness ==
    /\ resource_type[1] = "Endpoint"
    /\ Len(out[1]) >= 2
    /\ Last(out[1]).trigger = "request"
    /\ Last(out[1]).type_url = type_url("Listener")
    /\ ParseDecimal(Last(out[1]).version_info) = version["Listener"]
    /\ version["Listener"] # version["Endpoint"]


(* -------------------------------- C11 ---------------------------------- *)

\* C11: when the inbound half of a stream in its loop yields an error item,
\* the stream enters Terminated with its output as it was.
C11_InboundErrorTerminates ==
    [][\A s \in Streams :
          (spc[s] = "select" /\ Inbound(s, ErrorItem)) =>
              (spc'[s] = "Terminated" /\ out'[s] = out[s])]_vars

(* -------------------------------- C12 ---------------------------------- *)

\* the encoder fails in the step stream s takes
EncoderFails(s) ==
    /\ spc[s] = "encode"
    /\ discovery_request(call[s][1].resource_type, call[s][1].names) = <<>>
    /\ DiscoveryResponseEncode(s)

\* C12: whenever the encoder fails while a response is being built, the
\* stream terminates with an Internal status: the RPC's status in the
\* handshake, an inline item afterwards, for a watcher notification and for
\* an inbound message alike.
C12_EncodeFailureIsInternal ==
    [][\A s \in Streams :
          EncoderFails(s) =>
              /\ spc'[s] = "Terminated"
              /\ outcome'[s] = (IF call[s][1].trigger = "initial"
                                THEN "Internal" ELSE "Internal item")]_vars

(* -------------------------------- C13 ---------------------------------- *)

ReadyPaths == {"/ready", "/readyz"}

\* the status the claim gives a readiness probe in the current state
C13_Expected ==
    IF mode = "Proxy"
    THEN (IF clusters.endpoints > 0 THEN 200 ELSE 500)
    ELSE (IF healthy THEN 200 ELSE 500)

\* C13: a GET of /ready or /readyz is answered in Proxy mode with 200 when
\* the cluster map current at the request has an endpoint and with 500 when
\* it has none, and in Xds mode with what the health check says, whatever
\* was answered before.
C13_ReadinessNotLatched ==
    [][\A path \in ReadyPaths :
          HandleRequest("GET", path) =>
              Last(replies').status = C13_Expected]_vars

\* Proxy mode answered 500, then 200, then 500 again, and the map has been
\* replaced twice
C13_Witness ==
    /\ Len(replies) = 3
    /\ mode = "Proxy"
    /\ \A i \in 1..3 :
          /\ replies[i].method = "GET"
          /\ replies[i].path \in ReadyPaths
    /\ replies[1].status = 500
    /\ replies[2].status = 200
    /\ replies[3].status = 500
    /\ clusters.gen = 2


(* -------------------------------- C14 ---------------------------------- *)

\* a follow-up request as the claim defines it: a known type URL, no
\* error_detail and a response_nonce that is not a UUID
IsFollowUp(item) ==
    /\ item.kind = "message"
    /\ item.type_url \in {type_url(rt) : rt \in ResourceTypes}
    /\ ~item.error_detail
    /\ ~UuidParseOk(item.response_nonce)

\* C14: the loop iteration that takes a request with no error_detail and a
\* nonce that is not a UUID starts exactly one response, and every response
\* of a stream, emitted or about to be, is built with the resource_names of
\* the stream's initial request.
C14_FollowUpWithPinnedNames ==
    /\ [][\A s \in Streams :
            spc[s] = "select" =>
            \A item \in {i \in LaterItems : IsFollowUp(i)} :
            Inbound(s, item) =>
                /\ spc'[s] = "encode"
                /\ Len(call'[s]) = 1
                /\ call'[s][1].trigger = "request"
                /\ out'[s] = out[s]]_vars
    /\ [](\A s \in Streams :
            /\ \A i \in 1..Len(out[s]) : out[s][i].resources.names = message[s]
            /\ \A i \in 1..Len(response[s]) : response[s][i].resources.names = message[s])

\* a stream opened with a non-empty resource_names list has emitted an
\* initial, a watcher-triggered and a request-triggered response
C14_Witness ==
    /\ message[1] = <<"default">>
    /\ \A tr \in {"initial", "changed", "request"} :
          \E i \in 1..Len(out[1]) : out[1][i].trigger = tr


(* -------------------------------- C15 ---------------------------------- *)

\* a request with a known type URL, no error_detail and a UUID nonce that
\* stream s does not hold in PendingAcks
IsUnknownNonce(s, item) ==
    /\ item.kind = "message"
    /\ item.type_url \in {type_url(rt) : rt \in ResourceTypes}
    /\ ~item.error_detail
    /\ UuidParseOk(item.response_nonce)
    /\ item.response_nonce \notin Pending(s)

\* C15: the loop iteration that takes a request with no error_detail and a
\* UUID nonce the stream does not hold builds nothing and ends nothing: the
\* stream is back in the select with no call started, no response pending,
\* its output as it was and no outcome set.
C15_UnknownNonceIsSilent ==
    [][\A s \in Streams :
          spc[s] = "select" =>
          \A item \in {i \in LaterItems : IsUnknownNonce(s, i)} :
          Inbound(s, item) =>
              /\ spc'[s] = "select"
              /\ call'[s] = <<>>
              /\ response'[s] = <<>>
              /\ out'[s] = out[s]
              /\ outcome'[s] = "none"]_vars

\* stream 1 has just passed over an echo of a nonce that is not in its
\* PendingAcks: of one of its own nonces, all expired, while stream 2 has
\* issued none
C15_Witness ==
    /\ absorbed[1] = "unknown nonce"
    /\ spc[1] = "select"
    /\ out[1] # <<>>
    /\ pending_acks[1] = <<>>
    /\ out[2] = <<>>


(* -------------------------------- C16 ---------------------------------- *)

\* the responses of stream s in emit order, the one about to be yielded last
Built(s) == out[s] \o (IF spc[s] = "yield" THEN response[s] ELSE <<>>)

\* C16: the nonces of the responses of a stream, the one about to be yielded
\* included, are UUIDs and pairwise different, and the nonce of the response
\* about to be yielded is already in the stream's PendingAcks.
C16_FreshNonceRecordedBeforeYield ==
    \A s \in Streams :
        /\ \A i \in 1..Len(Built(s)) : UuidParseOk(Built(s)[i].nonce)
        /\ \A i, j \in 1..Len(Built(s)) :
              i # j => Built(s)[i].nonce # Built(s)[j].nonce
        /\ spc[s] = "yield" => cache_get(pending_acks[s], response[s][1].nonce)

\* a stream that has emitted two responses is about to yield a third
C16_Witness ==
    /\ spc[1] = "yield"
    /\ Len(out[1]) = 2
    /\ Len(pending_acks[1]) = 3


(* -------------------------------- C17 ---------------------------------- *)

\* no writer is inside a callback
WritersIdle == \A w \in Writers : todo[w] = <<>>

\* C17: a step moves a version counter or a channel by at most 1; the
\* Endpoint and Cluster counters count the changes of the clusters cell, the
\* Endpoint one first, and the Listener counter counts those of the filters
\* cell, each followed by its notification; when every callback has returned
\* each counter and each channel equals the number of changes of its cell,
\* with or without a stream attached.
C17_Wiring ==
    /\ [][\A rt \in ResourceTypes :
            /\ version'[rt] \in {version[rt], version[rt] + 1}
            /\ sender'[rt] \in {sender[rt], sender[rt] + 1}]_vars
    /\ [](/\ version["Cluster"] <= version["Endpoint"]
          /\ version["Endpoint"] <= clusters.gen
          /\ version["Listener"] <= filters.gen
          /\ \A rt \in ResourceTypes : sender[rt] <= version[rt])
    /\ [](WritersIdle =>
            /\ version["Endpoint"] = clusters.gen
            /\ version["Cluster"] = clusters.gen
            /\ version["Listener"] = filters.gen
            /\ \A rt \in ResourceTypes : sender[rt] = version[rt])

\* each cell has been changed once and its callback has returned while no
\* stream was open
C17_Witness ==
    /\ \A s \in Streams : spc[s] = "AwaitingInitial"
    /\ WritersIdle
    /\ clusters.gen = 1
    /\ filters.gen = 1
    /\ version = [rt \in ResourceTypes |-> 1]
    /\ sender = [rt \in ResourceTypes |-> 1]


(* -------------------------------- C18 ---------------------------------- *)

\* stream s has encoded, and not yet handed over, a response it builds
\* because it observed a notification
BuiltForNotification(s) ==
    \/ spc[s] = "version" /\ call[s][1].trigger = "changed"
    \/ spc[s] = "yield" /\ response[s][1].trigger = "changed"

\* C18: a response a stream builds because it observed the n-th notification
\* of its type is encoded from a snapshot that contains at least n changes
\* of the cell behind the type, that is, the change that caused the
\* notification and all before it.
C18_SnapshotNotOlderThanNotification ==
    \A s \in Streams :
        BuiltForNotification(s) =>
            /\ response[s][1].resources.of = resource_type[s]
            /\ response[s][1].resources.gen >= rx[s]

\* a stream has observed the second notification of its type and has
\* encoded the second snapshot while a writer is still inside its callback
C18_Witness ==
    /\ BuiltForNotification(1)
    /\ rx[1] = 2
    /\ response[1][1].resources.gen = 2
    /\ \E w \in Writers : todo[w] # <<>>


(* -------------------------------- C19 ---------------------------------- *)

\* C19: the loop iteration that finds the inbound stream ended leaves the
\* loop: the stream is Terminated, its output ends without an error item and
\* as it was; a Terminated stream stays Terminated and emits and builds
\* nothing more, whatever notifications are pending or arrive.
C19_CleanCloseTerminates ==
    /\ [][\A s \in Streams :
            (spc[s] = "select" /\ Inbound(s, EndOfStream)) =>
                /\ spc'[s] = "Terminated"
                /\ outcome'[s] = "end"
                /\ out'[s] = out[s]]_vars
    /\ [][\A s \in Streams :
            spc[s] = "Terminated" =>
                /\ spc'[s] = "Terminated"
                /\ outcome'[s] = outcome[s]
                /\ out'[s] = out[s]
                /\ call'[s] = call[s]
                /\ response'[s] = response[s]]_vars

\* a stream that ended cleanly after its initial response, with a
\* notification it never observed
C19_Witness ==
    /\ spc[1] = "Terminated"
    /\ outcome[1] = "end"
    /\ Len(out[1]) = 1
    /\ rx[1] # sender[resource_type[1]]


(* -------------------------------- C20 ---------------------------------- *)

\* C20, where every bump happens before the stream is opened: the stream
\* builds and emits no watcher-triggered response, so a client that only
\* acknowledges sees the initial response and nothing else.
C20_WatcherFiresOnlyForLaterBumps ==
    \A s \in Streams :
        /\ \A i \in 1..Len(out[s]) : out[s][i].trigger # "changed"
        /\ \A i \in 1..Len(call[s]) : call[s][i].trigger # "changed"


(* -------------------------------- C21 ---------------------------------- *)

\* every response a stream has emitted or is about to yield
AllBuilt == UNION {{Built(s)[i] : i \in 1..Len(Built(s))} : s \in Streams}

\* C21: a response carrying version_info N is encoded from the snapshot
\* produced by exactly the first N mutations of the cell behind its type, so
\* any two responses, on any streams, with the same type, names and
\* version_info carry the same resources.
C21_VersionIdentifiesContent ==
    /\ \A r \in AllBuilt : r.resources.gen = ParseDecimal(r.version_info)
    /\ \A r1, r2 \in AllBuilt :
          (/\ r1.type_url = r2.type_url
           /\ r1.resources.names = r2.resources.names
           /\ r1.version_info = r2.version_info) => r1.resources = r2.resources


(* -------------------------------- C22 ---------------------------------- *)

\* the responses stream s has built, or is building, for a notification
ChangedCount(s) ==
    Len(SelectSeq(Built(s), LAMBDA r : r.trigger = "changed"))
    + Len(SelectSeq(call[s], LAMBDA c : c.trigger = "changed"))

\* C22: a stream builds for notifications of the type of its initial request
\* only, whatever types it has requested since: it has built no more
\* watcher-triggered responses than notifications of that type it has
\* observed, it has observed no more than that type's channel has sent, each
\* such response is built for that type, and a notification of that type it
\* has not observed makes the rx.changed() branch ready.
C22_ListensToInitialTypeOnly ==
    \A s \in Streams :
        resource_type[s] # NoType =>
            /\ ChangedCount(s) <= rx[s]
            /\ rx[s] <= sender[resource_type[s]]
            /\ \A i \in 1..Len(call[s]) :
                  call[s][i].trigger = "changed" =>
                      call[s][i].resource_type = resource_type[s]
            /\ \A i \in 1..Len(Built(s)) :
                  Built(s)[i].trigger = "changed" =>
                      Built(s)[i].type_url = type_url(resource_type[s])
            /\ (spc[s] = "select" /\ Len(out[s]) < MaxResponses
                  /\ rx[s] < sender[resource_type[s]]) => ENABLED Changed(s)

\* a stream opened for Endpoint has requested and received Listener at
\* version 0, the filter chain has changed since and its callback has
\* returned, the cluster map has not changed, and the stream waits in its
\* select with nothing to do and room for more responses
C22_Witness ==
    /\ resource_type[1] = "Endpoint"
    /\ Len(out[1]) = 2
    /\ out[1][2].trigger = "request"
    /\ out[1][2].type_url = type_url("Listener")
    /\ out[1][2].version_info = to_string(0)
    /\ filters.gen = 1
    /\ sender["Listener"] = 1
    /\ clusters.gen = 0
    /\ WritersIdle
    /\ spc[1] = "select"
    /\ ~HasChanged(1)
    /\ ~ENABLED Changed(1)


(* -------------------------------- C23 ---------------------------------- *)

\* a writer is inside a callback that has still to push rt
Bumping(rt) == \E w \in Writers : \E i \in 1..Len(todo[w]) : todo[w][i] = rt

\* every push of the stream's type has been made, and the last response of
\* that type the stream has emitted carries the current counter and the
\* current snapshot
Converged(s) ==
    LET rt == resource_type[s]
    IN  /\ rt # NoType
        /\ ~Bumping(rt)
        /\ Seen(s, rt) # <<>>
        /\ ParseDecimal(Last(Seen(s, rt)).version_info) = version[rt]
        /\ Last(Seen(s, rt)).resources.gen = Snapshot(rt).gen

\* C23: once the cell behind the type of an Active stream changes no more,
\* the stream eventually has, as the last response of that type, one with
\* the current counter and the final snapshot, unless the client ends the
\* stream or the stream has emitted MaxResponses responses; and it stays so
\* while the cell does not change and the stream stays open.
C23_Convergence ==
    /\ \A rt \in ResourceTypes : \A g \in 0..MaxMutations :
          (Active(1) /\ resource_type[1] = rt /\ Snapshot(rt).gen = g)
          ~> (\/ Snapshot(rt).gen > g
              \/ spc[1] = "Terminated"
              \/ Len(out[1]) >= MaxResponses
              \/ Converged(1))
    /\ [][(/\ Converged(1)
           /\ Snapshot(resource_type[1])' = Snapshot(resource_type[1])
           /\ spc'[1] # "Terminated") => Converged(1)']_vars

\* two mutations whose notifications the stream observed as one: its second
\* response, the only watcher-triggered one, carries version 2 and the
\* second snapshot, and the stream waits with room for more responses
C23_Witness ==
    /\ Converged(1)
    /\ spc[1] = "select"
    /\ Len(out[1]) = 2
    /\ out[1][2].trigger = "changed"
    /\ out[1][2].version_info = to_string(2)
    /\ out[1][2].resources.gen = 2
    /\ sender[resource_type[1]] = 2
    /\ rx[1] = 2


(* -------------------------------- C24 ---------------------------------- *)

\* writer w is inside the callback registered on config.clusters
InClustersCallback(w) == todo[w] # <<>> /\ Head(todo[w]) \in {"Endpoint", "Cluster"}

\* the clusters callbacks in progress
ClustersCallbacks == Cardinality({w \in Writers : InClustersCallback(w)})

\* C24: the Cluster counter never exceeds the Endpoint counter, they differ
\* by at most the number of clusters callbacks in progress, so they are equal
\* when none is, and only a push_update inside a clusters callback moves either.
C24_ClusterTrailsEndpoint ==
    /\ [](/\ version["Cluster"] <= version["Endpoint"]
          /\ version["Endpoint"] - version["Cluster"] <= ClustersCallbacks
          /\ (ClustersCallbacks = 0 => version["Cluster"] = version["Endpoint"]))
    /\ [][(\/ version'["Endpoint"] # version["Endpoint"]
           \/ version'["Cluster"] # version["Cluster"]) =>
             \E w \in Writers : InClustersCallback(w) /\ PushUpdateFetchAdd(w)]_vars

\* two clusters callbacks have both bumped Endpoint and neither has bumped
\* Cluster
C24_Witness ==
    /\ ClustersCallbacks = 2
    /\ version["Endpoint"] = 2
    /\ version["Cluster"] = 0

====
